---- MODULE Spec2Model ----
(***************************************************************************)
(* Model of the LaneSelector widget                                        *)
(* (scopes/lanes/ui/inputs/lane-selector/lane-selector.tsx).               *)
(*                                                                         *)
(* The widget is a React function component.  Its state is the set of      *)
(* useState cells (search, sortBy, filteredLanes, trackedDropdownOpenState,*)
(* groupScope), the useMemo cell sortedNonMainLanes and the props the      *)
(* parent supplies (nonMainLanes, groupByScope).  Arrays are JavaScript    *)
(* objects: Array.prototype.sort sorts in place and returns the same       *)
(* object, so several names can denote one array.  The model therefore     *)
(* keeps a small heap of arrays and lets sortedNonMainLanes and            *)
(* filteredLanes be references into it.                                    *)
(*                                                                         *)
(* Every action is one event handler followed by the re-render and the     *)
(* effects React runs before the next event can be delivered.              *)
(***************************************************************************)
EXTENDS Integers, Sequences, FiniteSets

VARIABLES
  arrays,                   \* heap: reference -> array of lanes
  sortedNonMainLanes,       \* useMemo result (a reference), line 85
  filteredLanes,            \* useState cell (a reference), line 89
  search,                   \* useState cell, line 81
  sortBy,                   \* useState cell, line 82
  groupScope,               \* useState cell, line 101
  trackedDropdownOpenState, \* useState cell, line 91
  groupByScope,             \* prop, line 47
  supplied,                 \* history: the lane list as the caller built it
  lastEvent,                \* history: the event handled last
  selected,                 \* history: the option of that event, if a sort selection
  propagationStopped        \* history: the last event had stopPropagation() called

vars == <<arrays, sortedNonMainLanes, filteredLanes, search, sortBy, groupScope,
          trackedDropdownOpenState, groupByScope, supplied, lastEvent,
          selected, propagationStopped>>

(***************************************************************************)
(* Bounds                                                                  *)
(***************************************************************************)
MaxLanes == 3

(***************************************************************************)
(* Strings are sequences of UTF-16 code units; the strings of the model    *)
(* are written in the ASCII letters ("A" is 65, "a" is 97).                *)
(***************************************************************************)
IsUpper(c) == c \in 65..90

\* the letter of a code unit, whatever its case
Letter(c) == IF IsUpper(c) THEN c + 32 ELSE c

\* String.prototype.toLowerCase
toLowerCase(s) == [i \in DOMAIN s |-> Letter(s[i])]

\* String.prototype.startsWith
startsWith(s, q) == Len(q) <= Len(s) /\ SubSeq(s, 1, Len(q)) = q

\* String.prototype.includes
includes(s, q) ==
  \E i \in 0..(Len(s) - Len(q)) : SubSeq(s, i + 1, i + Len(q)) = q

\* String.prototype.localeCompare on letters (default collation): the letters
\* decide first, whatever their case; between strings of the same letters the
\* first difference of case decides, lower case first.
RECURSIVE PrimaryCompare(_, _)
PrimaryCompare(s, t) ==
  IF s = <<>> /\ t = <<>> THEN 0
  ELSE IF s = <<>> THEN -1
  ELSE IF t = <<>> THEN 1
  ELSE IF Letter(Head(s)) < Letter(Head(t)) THEN -1
  ELSE IF Letter(Head(s)) > Letter(Head(t)) THEN 1
  ELSE PrimaryCompare(Tail(s), Tail(t))

RECURSIVE TertiaryCompare(_, _)
TertiaryCompare(s, t) ==
  IF s = <<>> \/ t = <<>> THEN 0
  ELSE IF Head(s) = Head(t) THEN TertiaryCompare(Tail(s), Tail(t))
  ELSE IF IsUpper(Head(t)) THEN -1
  ELSE 1

localeCompare(s, t) ==
  LET primary == PrimaryCompare(s, t)
  IN  IF primary # 0 THEN primary ELSE TertiaryCompare(s, t)

(***************************************************************************)
(* Lanes.  An optional Date is the empty set or the singleton of its       *)
(* getTime() value.                                                        *)
(***************************************************************************)
Lane(scope, name, createdAt, updatedAt) ==
  [scope |-> scope, name |-> name, createdAt |-> createdAt, updatedAt |-> updatedAt]

LaneIdOf(lane) == <<lane.scope, lane.name>>

\* date?.getTime() ?? 0
getTimeOrZero(date) == IF date = {} THEN 0 ELSE CHOOSE t \in date : TRUE

ALPHABETICAL == "ALPHABETICAL"
CREATED == "CREATED"
UPDATED == "UPDATED"

LaneSelectorSortBy == {UPDATED, CREATED, ALPHABETICAL}

\* the sortOptions prop: every option enabled
sortOptions == <<ALPHABETICAL, CREATED, UPDATED>>

(***************************************************************************)
(* compareFn (lines 62-79).  The callback is created once (useCallback     *)
(* with no dependencies) and closes over the groupByScope prop.            *)
(***************************************************************************)
\* Variants of compareFn with a slip in them; the properties below must tell
\* each from compareFn.
compareFn_IgnoringGroup(_sortBy, a, b) ==
  IF _sortBy = UPDATED
    THEN getTimeOrZero(b.updatedAt) - getTimeOrZero(a.updatedAt)
  ELSE IF _sortBy = CREATED
    THEN getTimeOrZero(b.createdAt) - getTimeOrZero(a.createdAt)
  ELSE localeCompare(toLowerCase(a.name), toLowerCase(b.name))

compareFn_CaseSensitiveNames(_sortBy, a, b) ==
  IF _sortBy = UPDATED
    THEN getTimeOrZero(b.updatedAt) - getTimeOrZero(a.updatedAt)
  ELSE IF _sortBy = CREATED
    THEN getTimeOrZero(b.createdAt) - getTimeOrZero(a.createdAt)
  ELSE LET scopeCompareResult == localeCompare(a.scope, b.scope)
       IN  IF groupByScope /\ scopeCompareResult # 0
             THEN scopeCompareResult
             ELSE localeCompare(a.name, b.name)

compareFn_Ascending(_sortBy, a, b) ==
  IF _sortBy = UPDATED
    THEN getTimeOrZero(a.updatedAt) - getTimeOrZero(b.updatedAt)
  ELSE IF _sortBy = CREATED
    THEN getTimeOrZero(a.createdAt) - getTimeOrZero(b.createdAt)
  ELSE LET scopeCompareResult == localeCompare(a.scope, b.scope)
       IN  IF groupByScope /\ scopeCompareResult # 0
             THEN scopeCompareResult
             ELSE localeCompare(toLowerCase(a.name), toLowerCase(b.name))

compareFn(_sortBy, a, b) ==
  IF _sortBy = UPDATED
    THEN getTimeOrZero(b.updatedAt) - getTimeOrZero(a.updatedAt)
  ELSE IF _sortBy = CREATED
    THEN getTimeOrZero(b.createdAt) - getTimeOrZero(a.createdAt)
  ELSE LET scopeCompareResult == localeCompare(a.scope, b.scope)
       IN  IF groupByScope /\ scopeCompareResult # 0
             THEN scopeCompareResult
             ELSE localeCompare(toLowerCase(a.name), toLowerCase(b.name))

(***************************************************************************)
(* Array.prototype.sort with a comparator: a stable sort.  Elements are    *)
(* inserted left to right, each after the last element that does not       *)
(* compare greater than it.                                                *)
(***************************************************************************)
Front(s) == SubSeq(s, 1, Len(s) - 1)

RECURSIVE InsertStable(_, _, _)
InsertStable(x, s, _sortBy) ==
  IF s = <<>> THEN <<x>>
  ELSE IF compareFn(_sortBy, s[Len(s)], x) <= 0 THEN Append(s, x)
  ELSE Append(InsertStable(x, Front(s), _sortBy), s[Len(s)])

RECURSIVE sort(_, _)
sort(s, _sortBy) ==
  IF s = <<>> THEN <<>>
  ELSE InsertStable(s[Len(s)], sort(Front(s), _sortBy), _sortBy)

\* Array.prototype.filter with the two predicates of handleSearchOnChange
filterStartsWith(s, searchTerm) ==
  SelectSeq(s, LAMBDA lane :
    startsWith(toLowerCase(lane.name), toLowerCase(searchTerm)))

filterIncludes(s, searchTerm) ==
  SelectSeq(s, LAMBDA lane :
    includes(toLowerCase(lane.name), toLowerCase(searchTerm)))

(***************************************************************************)
(* The heap.  Reference 1 is the array the parent passes as nonMainLanes,  *)
(* reference 2 an older array the useMemo cell still holds, reference 3 an *)
(* array only filteredLanes holds.  While a handler and the render after   *)
(* it run, reference 4 is the array they allocate; Commit renames the      *)
(* references the widget still holds and drops the rest.                   *)
(***************************************************************************)
nonMainLanes == 1

At(ref) == arrays[ref]

\* line 109
multipleLanes == Len(At(nonMainLanes)) > 1

\* the showScope prop of LanePlaceholder, line 188
showScope == groupByScope

World ==
  [h |-> [i \in 1..4 |-> IF i <= 3 THEN arrays[i] ELSE <<>>],
   p |-> nonMainLanes, m |-> sortedNonMainLanes, f |-> filteredLanes]

\* useMemo(() => nonMainLanes.sort(compareFn(sortBy)), [sortBy, nonMainLanes.length])
UseMemo(w, depsChanged, _sortBy) ==
  IF depsChanged
    THEN [w EXCEPT !.h[w.p] = sort(@, _sortBy), !.m = w.p]
    ELSE w

\* useEffect(..., [nonMainLanes.length]), lines 103-107
UseEffect(w, depsChanged) ==
  IF depsChanged /\ Len(w.h[w.f]) # Len(w.h[w.p])
    THEN [w EXCEPT !.f = w.p]
    ELSE w

Commit(w) ==
  /\ arrays' = [i \in 1..3 |->
        IF i = 1 THEN w.h[w.p]
        ELSE IF i = 2 THEN (IF w.m # w.p THEN w.h[w.m] ELSE <<>>)
        ELSE (IF w.f # w.p /\ w.f # w.m THEN w.h[w.f] ELSE <<>>)]
  /\ sortedNonMainLanes' = IF w.m = w.p THEN 1 ELSE 2
  /\ filteredLanes' = IF w.f = w.p THEN 1 ELSE IF w.f = w.m THEN 2 ELSE 3

(***************************************************************************)
(* Inputs                                                                  *)
(***************************************************************************)
Str_a == <<97>>
Str_b == <<98>>
Str_A == <<65>>
Str_alpha == <<97, 108, 112, 104, 97>>
Str_Alpha == <<65, 108, 112, 104, 97>>
Str_metal == <<109, 101, 116, 97, 108>>
Str_Zeta == <<90, 101, 116, 97>>
Str_al == <<97, 108>>
Str_ET == <<69, 84>>
Str_ze == <<122, 101>>

\* the lanes of the widget specification
LanePool ==
  { Lane(Str_b, Str_alpha, {2}, {}),
    Lane(Str_b, Str_metal, {2}, {3}),
    Lane(Str_a, Str_Zeta, {1}, {2}) }

\* the texts typed into the search box
QueryPool ==
  { <<>>, Str_al, Str_ET, Str_ze }

\* the lanes of the sorting specification: identifiers that tie under one
\* comparator or another, each with any of the <<createdAt, updatedAt>> pairs
\* below
SortIds ==
  { <<Str_a, Str_Zeta>>, <<Str_b, Str_alpha>>, <<Str_b, Str_Alpha>>, <<Str_A, Str_alpha>> }

TimePairs ==
  { <<{1}, {}>>, <<{}, {1}>>, <<{0}, {2}>> }

SortUniverse ==
  { Lane(id[1], id[2], tp[1], tp[2]) : id \in SortIds, tp \in TimePairs }

\* lists of at most MaxLanes lanes with pairwise different identifiers
UniqueIds(s) ==
  \A i, j \in DOMAIN s : i # j => LaneIdOf(s[i]) # LaneIdOf(s[j])

LaneLists(pool) ==
  UNION { {s \in [1..n -> pool] : UniqueIds(s)} : n \in 0..MaxLanes }

(***************************************************************************)
(* The state after the first render (mount).  useMemo sorts the supplied   *)
(* array in place, filteredLanes starts as that same array, and the effect *)
(* finds equal lengths.                                                    *)
(***************************************************************************)
Mounted(list, group, sortByFromProps) ==
  /\ groupByScope = group
  /\ supplied = list
  /\ sortBy = sortByFromProps
  /\ arrays = [i \in 1..3 |-> IF i = 1 THEN sort(list, sortByFromProps) ELSE <<>>]
  /\ sortedNonMainLanes = nonMainLanes
  /\ filteredLanes = nonMainLanes
  /\ search = <<>>
  /\ groupScope = group
  /\ trackedDropdownOpenState = FALSE
  /\ lastEvent = "mount"
  /\ selected = "none"
  /\ propagationStopped = FALSE

Init ==
  \E list \in LaneLists(LanePool), group \in BOOLEAN, s \in LaneSelectorSortBy :
    Mounted(list, group, s)

(***************************************************************************)
(* Event handlers                                                          *)
(***************************************************************************)
\* lines 92-99
onDropdownPlaceholderToggled ==
  /\ trackedDropdownOpenState' = ~trackedDropdownOpenState
  /\ lastEvent' = "toggle"
  /\ selected' = "none"
  /\ propagationStopped' = FALSE
  /\ UNCHANGED <<arrays, sortedNonMainLanes, filteredLanes, search, sortBy,
                 groupScope, groupByScope, supplied>>

\* lines 111-134, then the render.  (A handler's intermediate heaps are bound
\* by \E over a singleton so that each is computed once.)
handleSearchOnChange(searchTerm) ==
  /\ multipleLanes
  /\ searchTerm # search
  /\ \E w \in {World} :
     \E updatedLanes \in {filterStartsWith(w.h[w.m], searchTerm)} :
     \E w1 \in {IF searchTerm = <<>>
                   THEN [w EXCEPT !.f = w.m]
                   ELSE [w EXCEPT !.h[4] = IF Len(updatedLanes) = 0
                                             THEN filterIncludes(w.h[w.p], searchTerm)
                                             ELSE updatedLanes,
                                  !.f = 4]} :
     \E w2 \in {UseEffect(UseMemo(w1, FALSE, sortBy), FALSE)} :
       Commit(w2)
  /\ search' = searchTerm
  /\ lastEvent' = "search"
  /\ selected' = "none"
  /\ propagationStopped' = TRUE
  /\ UNCHANGED <<sortBy, groupScope, trackedDropdownOpenState, groupByScope, supplied>>

\* handleSearchOnClick without stopPropagation: the click reaches the
\* placeholder toggle
handleSearchOnClick_Propagating ==
  /\ multipleLanes
  /\ trackedDropdownOpenState' = ~trackedDropdownOpenState
  /\ lastEvent' = "click"
  /\ selected' = "none"
  /\ propagationStopped' = FALSE
  /\ UNCHANGED <<arrays, sortedNonMainLanes, filteredLanes, search, sortBy,
                 groupScope, groupByScope, supplied>>

\* lines 136-139
handleSearchOnClick ==
  /\ multipleLanes
  /\ lastEvent' = "click"
  /\ selected' = "none"
  /\ propagationStopped' = TRUE
  /\ UNCHANGED <<arrays, sortedNonMainLanes, filteredLanes, search, sortBy,
                 groupScope, trackedDropdownOpenState, groupByScope, supplied>>

\* the checkbox of LaneGroup, lines 160-178
onInputChanged ==
  /\ multipleLanes
  /\ groupByScope
  /\ groupScope' = ~groupScope
  /\ lastEvent' = "group"
  /\ selected' = "none"
  /\ propagationStopped' = TRUE
  /\ UNCHANGED <<arrays, sortedNonMainLanes, filteredLanes, search, sortBy,
                 trackedDropdownOpenState, groupByScope, supplied>>

\* onOptionSelect setting filteredLanes to the sorted full list instead of
\* re-sorting the list it holds
onOptionSelect_DroppingFilter(index, e) ==
  /\ multipleLanes
  /\ \E option \in {sortOptions[index]} :
     \E w \in {World} :
     \E w1 \in {UseMemo(w, option # sortBy, option)} :
     \E w2 \in {[w1 EXCEPT !.h[4] = sort(w1.h[w1.m], option), !.f = 4]} :
     \E w3 \in {UseEffect(w2, FALSE)} :
       /\ sortBy' = option
       /\ selected' = option
       /\ Commit(w3)
  /\ lastEvent' = "sort"
  /\ propagationStopped' = e
  /\ UNCHANGED <<search, groupScope, trackedDropdownOpenState, groupByScope, supplied>>

\* lines 214-221, then the render: the sortBy cell is read first, useMemo
\* runs next, the filteredLanes updater after it
onOptionSelect(index, e) ==
  /\ multipleLanes
  /\ \E option \in {sortOptions[index]} :
     \E w \in {World} :
     \E w1 \in {UseMemo(w, option # sortBy, option)} :
     \E sortedState \in {sort(w1.h[w1.f], option)} :
     \E w2 \in {[w1 EXCEPT !.h[w1.f] = sortedState, !.h[4] = sortedState, !.f = 4]} :
     \E w3 \in {UseEffect(w2, FALSE)} :
       /\ sortBy' = option
       /\ selected' = option
       /\ Commit(w3)
  /\ lastEvent' = "sort"
  /\ propagationStopped' = e
  /\ UNCHANGED <<search, groupScope, trackedDropdownOpenState, groupByScope, supplied>>

\* the parent renders the widget with a new nonMainLanes array
ReplaceLanes(list) ==
  /\ \E w \in {[World EXCEPT !.h[4] = list, !.p = 4]} :
     \E lengthChanged \in {Len(list) # Len(At(nonMainLanes))} :
     \E w1 \in {UseMemo(w, lengthChanged, sortBy)} :
     \E w2 \in {UseEffect(w1, lengthChanged)} :
       Commit(w2)
  /\ supplied' = list
  /\ lastEvent' = "lanes"
  /\ selected' = "none"
  /\ propagationStopped' = FALSE
  /\ UNCHANGED <<search, sortBy, groupScope, trackedDropdownOpenState, groupByScope>>

Next ==
  \/ onDropdownPlaceholderToggled
  \/ \E searchTerm \in QueryPool : handleSearchOnChange(searchTerm)
  \/ handleSearchOnClick
  \/ onInputChanged
  \/ \E index \in DOMAIN sortOptions, e \in BOOLEAN : onOptionSelect(index, e)
  \/ \E list \in LaneLists(LanePool) : ReplaceLanes(list)

Spec == Init /\ [][Next]_vars

\* the sorting specification: lanes drawn from SortUniverse, sorted by the
\* sort options
InitSort ==
  \E list \in LaneLists(SortUniverse), group \in BOOLEAN, s \in LaneSelectorSortBy :
    Mounted(list, group, s)

NextSort ==
  \E index \in DOMAIN sortOptions, e \in BOOLEAN : onOptionSelect(index, e)

SpecSort == InitSort /\ [][NextSort]_vars

(***************************************************************************)
(* Vocabulary of the properties                                            *)
(***************************************************************************)
\* the list the widget shows, and the list the parent supplies
Visible == At(filteredLanes)
Lanes == At(nonMainLanes)

Range(s) == {s[i] : i \in DOMAIN s}

Sign(n) == IF n < 0 THEN -1 ELSE IF n > 0 THEN 1 ELSE 0

Ids(s) == [i \in DOMAIN s |-> LaneIdOf(s[i])]

Occurrences(s, x) == Cardinality({i \in DOMAIN s : s[i] = x})

IsPermutation(s, t) ==
  /\ Len(s) = Len(t)
  /\ \A x \in Range(s) \cup Range(t) : Occurrences(s, x) = Occurrences(t, x)

NameStartsWith(lane, q) == startsWith(toLowerCase(lane.name), toLowerCase(q))
NameContains(lane, q) == includes(toLowerCase(lane.name), toLowerCase(q))

\* the search filter of section 4.2: the sorted list for an empty query, the
\* lanes of the sorted list that start with the query when there are any,
\* else the lanes that contain it
IsReferenceFilter(visible, sorted, q) ==
  IF q = <<>> THEN visible = sorted
  ELSE IF \E lane \in Range(sorted) : NameStartsWith(lane, q)
    THEN visible = SelectSeq(sorted, LAMBDA lane : NameStartsWith(lane, q))
  ELSE /\ Range(visible) = {lane \in Range(sorted) : NameContains(lane, q)}
       /\ Len(visible) = Cardinality(Range(visible))

\* the order section 4.1 gives two lanes, group being the group-by-scope setting
ScopeFirst(group, a, b) == group /\ a.scope # b.scope

InOrder(mode, group, a, b) ==
  IF mode = UPDATED THEN getTimeOrZero(a.updatedAt) >= getTimeOrZero(b.updatedAt)
  ELSE IF mode = CREATED THEN getTimeOrZero(a.createdAt) >= getTimeOrZero(b.createdAt)
  ELSE IF ScopeFirst(group, a, b) THEN localeCompare(a.scope, b.scope) < 0
  ELSE localeCompare(toLowerCase(a.name), toLowerCase(b.name)) <= 0

IsOrdered(s, mode, group) ==
  \A i, j \in DOMAIN s : i < j => InOrder(mode, group, s[i], s[j])

(***************************************************************************)
(* C1.  After a search change the visible list is the reference filter of  *)
(* the typed query over the lane list sorted by the current sort mode.     *)
(* Fails: the sorted list the handler reads is the useMemo cell, which     *)
(* still holds the previous array when the parent has supplied a new list  *)
(* of the same length.                                                     *)
(***************************************************************************)
C1_SearchGivesReferenceFilter ==
  lastEvent = "search" => IsReferenceFilter(Visible, sort(Lanes, sortBy), search)

(***************************************************************************)
(* C2.  After the group checkbox is toggled, the flipped flag is the one   *)
(* the placeholder shows the scope by and the one an alphabetical sort     *)
(* orders by.  Fails: both read the groupByScope prop.                     *)
(***************************************************************************)
C2_ToggledFlagIsTheOneUsed ==
  /\ lastEvent = "group" => showScope = groupScope
  /\ (lastEvent = "sort" /\ selected = ALPHABETICAL)
       => IsOrdered(Visible, ALPHABETICAL, groupScope)

(***************************************************************************)
(* C3.  Whenever the number of supplied lanes changes, the filtered list   *)
(* becomes the full current lane list.  Fails when the filtered list       *)
(* already has the new length.                                             *)
(***************************************************************************)
C3_LaneCountChangeResetsFiltered ==
  [][Len(arrays'[nonMainLanes]) # Len(arrays[nonMainLanes])
       => arrays'[filteredLanes'] = arrays'[nonMainLanes]]_vars

(***************************************************************************)
(* C4.  No operation changes the order of the caller-supplied lane list.   *)
(* Fails: useMemo and onOptionSelect sort the supplied array in place.     *)
(***************************************************************************)
C4_SuppliedListKeepsItsOrder == Lanes = supplied

(***************************************************************************)
(* C5.  An alphabetical sort orders two lanes by scope when grouping by    *)
(* scope is on and their scopes differ, otherwise by lower-cased name;     *)
(* a/Zeta, b/alpha comes out as [a/Zeta, b/alpha] with grouping on and as  *)
(* [b/alpha, a/Zeta] with grouping off.                                    *)
(***************************************************************************)
Scenario_ZetaAlpha == <<<<Str_a, Str_Zeta>>, <<Str_b, Str_alpha>>>>
Scenario_AlphaZeta == <<<<Str_b, Str_alpha>>, <<Str_a, Str_Zeta>>>>

C5_AlphabeticalOrder ==
  sortBy = ALPHABETICAL =>
    /\ IsOrdered(Visible, ALPHABETICAL, groupByScope)
    /\ Ids(supplied) \in {Scenario_ZetaAlpha, Scenario_AlphaZeta} =>
         Ids(Visible) = IF groupByScope THEN Scenario_ZetaAlpha ELSE Scenario_AlphaZeta

C5_Witness ==
  /\ lastEvent = "sort"
  /\ selected = ALPHABETICAL
  /\ ~groupByScope
  /\ Ids(supplied) = Scenario_ZetaAlpha
  /\ Ids(Visible) = Scenario_AlphaZeta

(***************************************************************************)
(* C6.  Selecting a sort option sets the sort mode to that option and      *)
(* leaves the visible list a permutation of what it was, ordered by the    *)
(* option's comparator.                                                    *)
(***************************************************************************)
C6_SortSelectionResortsVisible ==
  [][lastEvent' = "sort" =>
       /\ sortBy' = selected'
       /\ IsPermutation(arrays'[filteredLanes'], arrays[filteredLanes])
       /\ IsOrdered(arrays'[filteredLanes'], selected', groupByScope)]_vars

C6_Witness ==
  /\ lastEvent = "sort"
  /\ selected = UPDATED
  /\ search = Str_ET
  /\ Len(Lanes) = 3
  /\ Ids(Visible) = <<<<Str_b, Str_metal>>, <<Str_a, Str_Zeta>>>>

(***************************************************************************)
(* C7.  As claimed: for every sort mode the comparator is antisymmetric    *)
(* and transitive over the lanes of the list and never compares two        *)
(* different lanes as equal.  Fails: lanes with equal keys compare as 0.   *)
(***************************************************************************)
\* the comparator's results over the lanes of the supplied list
CompareTable(mode) ==
  [a \in Range(Lanes), b \in Range(Lanes) |-> compareFn(mode, a, b)]

Antisymmetric(cmp) ==
  \A a, b \in Range(Lanes) : Sign(cmp[a, b]) = -Sign(cmp[b, a])

Transitive(cmp) ==
  \A a, b, c \in Range(Lanes) :
    (cmp[a, b] <= 0 /\ cmp[b, c] <= 0) => cmp[a, c] <= 0

C7_ComparatorIsStrictTotalOrder ==
  \A mode \in LaneSelectorSortBy : \A cmp \in {CompareTable(mode)} :
    /\ Antisymmetric(cmp)
    /\ Transitive(cmp)
    /\ \A a, b \in Range(Lanes) : a # b => cmp[a, b] # 0

(***************************************************************************)
(* C7 as amended.  The comparator is a total preorder: antisymmetric in    *)
(* sign, transitive, and 0 exactly for two lanes with the same sort key    *)
(* (the timestamp, a missing one counting as 0; the lower-cased name and,  *)
(* with grouping by scope, the scope).                                     *)
(***************************************************************************)
SortKey(mode, group, lane) ==
  IF mode = UPDATED THEN <<getTimeOrZero(lane.updatedAt)>>
  ELSE IF mode = CREATED THEN <<getTimeOrZero(lane.createdAt)>>
  ELSE IF group THEN lane.scope \o <<0>> \o toLowerCase(lane.name)
  ELSE toLowerCase(lane.name)

C7_ComparatorIsTotalPreorder ==
  \A mode \in LaneSelectorSortBy : \A cmp \in {CompareTable(mode)} :
    /\ Antisymmetric(cmp)
    /\ Transitive(cmp)
    /\ \A a, b \in Range(Lanes) :
         cmp[a, b] = 0
           <=> SortKey(mode, groupByScope, a) = SortKey(mode, groupByScope, b)

C7_Witness ==
  /\ lastEvent = "sort"
  /\ Len(Lanes) = 3
  /\ \E i, j \in DOMAIN Lanes : i # j /\ compareFn(sortBy, Lanes[i], Lanes[j]) = 0
  /\ \E i, j \in DOMAIN Lanes : compareFn(sortBy, Lanes[i], Lanes[j]) < 0

(***************************************************************************)
(* C8.  A created or updated sort puts the lanes in descending order of    *)
(* that timestamp, a lane without it counting as 0 and so coming after     *)
(* every lane with a positive one; when the updatedAt values (so counted)  *)
(* are pairwise different, the updated sort is strictly descending.        *)
(***************************************************************************)
TimeOf(mode, lane) == IF mode = UPDATED THEN lane.updatedAt ELSE lane.createdAt

C8_TimestampOrderDescending ==
  sortBy \in {CREATED, UPDATED} =>
    /\ \A i, j \in DOMAIN Visible : i < j =>
         getTimeOrZero(TimeOf(sortBy, Visible[i])) >= getTimeOrZero(TimeOf(sortBy, Visible[j]))
    /\ \A i, j \in DOMAIN Visible :
         (TimeOf(sortBy, Visible[i]) = {} /\ getTimeOrZero(TimeOf(sortBy, Visible[j])) > 0)
           => j < i
    /\ (/\ sortBy = UPDATED
        /\ \A i, j \in DOMAIN Visible : i # j =>
             getTimeOrZero(Visible[i].updatedAt) # getTimeOrZero(Visible[j].updatedAt))
         => \A i, j \in DOMAIN Visible : i < j =>
              getTimeOrZero(Visible[i].updatedAt) > getTimeOrZero(Visible[j].updatedAt)

C8_Witness ==
  /\ lastEvent = "sort"
  /\ selected = UPDATED
  /\ Len(Visible) = 3
  /\ Visible[3].updatedAt = {}
  /\ getTimeOrZero(Visible[1].updatedAt) > getTimeOrZero(Visible[2].updatedAt)
  /\ getTimeOrZero(Visible[2].updatedAt) > 0
  /\ Visible # supplied

C10_VisibleIsDerivedFromState ==
  /\ IsReferenceFilter(Visible, sort(Lanes, sortBy), search)
  /\ Range(Visible) \subseteq Range(Lanes)

====
